---- MODULE Spec2Model ----
(***************************************************************************)
(* A model of rust-qtlreaper: the genotype data model and the imputation   *)
(* of missing genotypes (src/src/geneobject.rs) and the regression scan,   *)
(* the permutation test and the p-value lookup (src/src/regression.rs).    *)
(*                                                                         *)
(* f64 values are modelled symbolically.  A value is a record              *)
(*   [k, v, e, cp, cl, cn]                                                 *)
(* where k = "lit" is the literal v, k = "est" is the value of the closed  *)
(* form named e (a cell of the tables of estimate_unknown_genotypes)       *)
(* evaluated at the centiMorgan positions cp (locus before the run), cl    *)
(* (the locus itself) and cn (locus after the run), and k = "nan" is NaN.  *)
(* centiMorgan positions are integers (tenths of a centiMorgan).           *)
(***************************************************************************)
EXTENDS Integers, Sequences, FiniteSets, TLC

VARIABLES
    dominance,      \* Dataset.dominance: TRUE for an intercross dataset
    strains,        \* Dataset.strains: the number of strains of the header line
    chr_order,      \* Genome.chr_order: chromosome names, first pushed first
    chromosomes,    \* Genome.chromosomes: chromosome name -> sequence of Locus
    runs,           \* number of completed calls of Dataset::estimate_unknown
    panicked,       \* "" or the message of the panic that aborted the program
    state,          \* the state tuple stepped by step_many_unknown_intervals_mut
    fed,            \* the genotype rows fed to step_many_unknown_intervals_mut so far
    n_perms,        \* permutation: the argument n_perms
    threads,        \* permutation: the argument threads
    temp_vec,       \* permutation: worker -> the maxima the worker has recorded
    lrs_vec,        \* permutation: the vector returned
    perm_pc,        \* permutation: "run" while workers run, "done" once returned
    permutations,   \* pvalue: the argument permutations
    calls,          \* pvalue: the last calls, each its lrs and its result
    control,        \* regression: the argument control, None or Some(marker name)
    strain_ixs,     \* regression: the indices of the requested strains
    hash_order,     \* regression: the order in which the HashMap yields the chromosomes
    control_geno,   \* regression: the genotypes of the control marker, if any
    result,         \* regression: the QTL results pushed so far
    cursor,         \* regression: the number of loci the scan has entered
    reg_pc,         \* regression: "call", "scan", "returned" or the panic raised
    kernel,         \* a regression kernel at its clamp: its locals and what it returns
    data_in,        \* permuted_mut: the slice as it was when the call began
    data,           \* permuted_mut: the slice being shuffled
    shuffle_ix,     \* permuted_mut: the loop index ix
    draws,          \* permuted_mut: the values gen_range has returned so far
    n_boot,         \* bootstrap: the argument n_boot
    locus_count,    \* bootstrap: the counters, one per locus
    boot_i,         \* bootstrap: the number of replicates done
    replicate,      \* bootstrap: the LRS values of the last replicate, and locus_count before it
    boot_pc         \* bootstrap: "", "run", "returned" or the panic raised

datasetVars == <<dominance, strains, chr_order, chromosomes, runs, panicked>>

scanVars == <<state, fed>>

permVars == <<n_perms, threads, temp_vec, lrs_vec, perm_pc>>

pvalueVars == <<permutations, calls>>

regVars == <<control, strain_ixs, hash_order, control_geno, result, cursor, reg_pc>>

kernelVars == <<kernel>>

shuffleVars == <<data_in, data, shuffle_ix, draws>>

bootVars == <<n_boot, locus_count, boot_i, replicate, boot_pc>>

vars == <<datasetVars, scanVars, permVars, pvalueVars, regVars, kernelVars, shuffleVars, bootVars>>

---------------------------------------------------------------------------
(* Bounds of the model *)

\* the most genotype columns of the lines pushed into one dataset, all lines
\* taken together
MaxCells == 3

\* the most strains of the header line of a genotype file
NStrains == 2

\* the most (Genotype, dosage) pairs fed to step_many_unknown_intervals_mut
MaxEntries == 6

\* the most strains of the rows fed to step_many_unknown_intervals_mut
MaxScanStrains == 3


---------------------------------------------------------------------------
(* Genotype and f64 values *)

Genotype == {"Mat", "Pat", "Het", "Unk"}

Lit(x) == [k |-> "lit", v |-> x, e |-> "", cp |-> 0, cl |-> 0, cn |-> 0]

NaN == [k |-> "nan", v |-> 0, e |-> "", cp |-> 0, cl |-> 0, cn |-> 0]

\* Option<T>: None is the empty sequence, Some(x) the sequence <<x>>
None == <<>>

Some(x) == <<x>>

\* Metadata::parse_genotype: the (Genotype, dosage) pair of a genotype symbol
parse_genotype(geno) ==
    IF geno = "Mat" THEN [geno |-> "Mat", val |-> Lit(-1)]
    ELSE IF geno = "Pat" THEN [geno |-> "Pat", val |-> Lit(1)]
    ELSE IF geno = "Het" THEN [geno |-> "Het", val |-> Lit(0)]
    ELSE [geno |-> "Unk", val |-> Lit(99)]

\* Metadata::parse_dominance: the dominance coding of a genotype symbol
parse_dominance(geno) ==
    IF geno = "Mat" THEN Lit(0)
    ELSE IF geno = "Pat" THEN Lit(0)
    ELSE IF geno = "Het" THEN Lit(1)
    ELSE Lit(1)

\* Locus::parse_line: the Locus of one line of the genotype file
parse_line(dom, chr, name, cm, words) ==
    [ marker    |-> [name |-> name, centi_morgan |-> cm, chromosome |-> chr],
      genotype  |-> [i \in 1..Len(words) |-> parse_genotype(words[i])],
      dominance |-> IF dom
                    THEN Some([i \in 1..Len(words) |-> parse_dominance(words[i])])
                    ELSE None ]

---------------------------------------------------------------------------
(* Detection of the runs of Unknown genotypes *)

\* Option<usize> of the open run start: -1 is None (indices are 0-based as in
\* the source; the locus of index ix is loci[ix + 1] of the model's sequence)
NoStart == 0 - 1

\* a Range<usize> start..end
Range(start, end) == [start |-> start, end |-> end]

\* the state find_unknown_intervals starts from: (vec![None; n], vec![Vec::new(); n])
InitialState(n_strains) ==
    << [s \in 1..n_strains |-> NoStart], [s \in 1..n_strains |-> <<>>] >>

\* StepStrain with the open run restarted at every Unknown locus
StepStrainRestart(open, ranges, ix, geno) ==
    IF geno = "Unk"
    THEN << ix, ranges >>
    ELSE IF open # NoStart
         THEN << NoStart, Append(ranges, Range(open, ix)) >>
         ELSE << open, ranges >>

\* Locus::step_many_unknown_intervals_mut with one strain's entry of the state
StepStrain(open, ranges, ix, geno) ==
    IF geno = "Unk"
    THEN << (IF open = NoStart THEN ix ELSE open), ranges >>
    ELSE IF open # NoStart
         THEN << NoStart, Append(ranges, Range(open, ix)) >>
         ELSE << open, ranges >>

\* Locus::step_many_unknown_intervals_mut: the state after the locus of index ix,
\* whose per-strain (Genotype, dosage) pairs are genotype
step_many_unknown_intervals_mut(st, ix, genotype) ==
    << [s \in DOMAIN st[1] |->
            IF s \in DOMAIN genotype
            THEN StepStrain(st[1][s], st[2][s], ix, genotype[s].geno)[1]
            ELSE st[1][s]],
       [s \in DOMAIN st[2] |->
            IF s \in DOMAIN genotype
            THEN StepStrain(st[1][s], st[2][s], ix, genotype[s].geno)[2]
            ELSE st[2][s]] >>

RECURSIVE FoldSteps(_, _, _)
\* the loop of find_unknown_intervals from the locus of index ix on
FoldSteps(st, loci, ix) ==
    IF ix >= Len(loci) THEN st
    ELSE FoldSteps(step_many_unknown_intervals_mut(st, ix, loci[ix + 1].genotype),
                   loci, ix + 1)

\* Locus::find_unknown_intervals: the closed runs of every strain
find_unknown_intervals(loci) ==
    FoldSteps(InitialState(Len(loci[1].genotype)), loci, 0)[2]

---------------------------------------------------------------------------
(* Estimation of the missing genotypes *)

\* the closed forms of the dosage table that divide by f0 (through r_1)
DosageCellsWithR1 ==
    {"1-r0-r1", "1-2*r1", "r1-r0", "r0-r1", "2*r1-1", "r0+r1-1"}

\* the closed forms of the dominance table that divide by f0 (through r_1 or r_2)
DominanceCellsWithR1R2 ==
    {"r1*(r2+r3)", "2*r1*r2", "r0*r1+r2*r3",
     "1-2*w*r0*r3-2*(1-w)*r1*r2", "2*r1*r3"}

\* The f64 a closed form e evaluates to at the positions cp <= cl <= cn of the
\* locus before the run, the locus and the locus after the run.  f0 is 0.0 exactly
\* when cn = cp, and then r_1 = f1 * (1 - f2) / f0 and r_2 are 0.0 / 0.0 = NaN;
\* 1 - f0 is never 0.0 because f0 < 1/2.  Any other value is kept as the term.
Evaluate(e, cp, cl, cn) ==
    IF cn = cp /\ e \in (DosageCellsWithR1 \cup DominanceCellsWithR1R2)
    THEN NaN
    ELSE [k |-> "est", v |-> 0, e |-> e, cp |-> cp, cl |-> cl, cn |-> cn]

\* the match of new_genotype: the closed form of the dosage of a missing entry
\* whose flanking genotypes are prev_geno and next_geno ("panic" is the _ arm)
DosageCell(prev_geno, next_geno) ==
    CASE prev_geno = "Mat" /\ next_geno = "Mat" -> "1-2*r0"
      [] prev_geno = "Het" /\ next_geno = "Mat" -> "1-r0-r1"
      [] prev_geno = "Pat" /\ next_geno = "Mat" -> "1-2*r1"
      [] prev_geno = "Mat" /\ next_geno = "Het" -> "r1-r0"
      [] prev_geno = "Het" /\ next_geno = "Het" -> "0.0"
      [] prev_geno = "Pat" /\ next_geno = "Het" -> "r0-r1"
      [] prev_geno = "Mat" /\ next_geno = "Pat" -> "2*r1-1"
      [] prev_geno = "Het" /\ next_geno = "Pat" -> "r0+r1-1"
      [] prev_geno = "Pat" /\ next_geno = "Pat" -> "2*r0-1"
      [] OTHER -> "panic"

\* the match of new_dominance: the closed form of the dominance coefficient
\* (r_1 * r_0 of the (Mat, Het) arm is written r0*r1: an f64 product commutes)
DominanceCell(prev_geno, next_geno) ==
    CASE prev_geno = "Mat" /\ next_geno = "Mat" -> "2*r0*r3"
      [] prev_geno = "Het" /\ next_geno = "Mat" -> "r1*(r2+r3)"
      [] prev_geno = "Pat" /\ next_geno = "Mat" -> "2*r1*r2"
      [] prev_geno = "Mat" /\ next_geno = "Het" -> "r0*r1+r2*r3"
      [] prev_geno = "Het" /\ next_geno = "Het" -> "1-2*w*r0*r3-2*(1-w)*r1*r2"
      [] prev_geno = "Pat" /\ next_geno = "Het" -> "r0*r1+r2*r3"
      [] prev_geno = "Mat" /\ next_geno = "Pat" -> "2*r1*r2"
      [] prev_geno = "Het" /\ next_geno = "Pat" -> "r1*(r2+r3)"
      [] prev_geno = "Pat" /\ next_geno = "Pat" -> "2*r1*r3"
      [] OTHER -> "panic"

\* the value of new_genotype: the (Het, Het) arm is the literal 0.0
NewGenotype(prev_geno, next_geno, cp, cl, cn) ==
    IF DosageCell(prev_geno, next_geno) = "0.0"
    THEN Lit(0)
    ELSE Evaluate(DosageCell(prev_geno, next_geno), cp, cl, cn)

\* the value of new_dominance
NewDominance(prev_geno, next_geno, cp, cl, cn) ==
    Evaluate(DominanceCell(prev_geno, next_geno), cp, cl, cn)

\* StoreDosage adding the estimate to the stored dosage (+= for =): the sum is
\* the estimate's term with k = "sum" and v the number of estimates added
StoreDosageAdd(old, new) ==
    [new EXCEPT !.k = "sum", !.v = IF old.k = "sum" THEN old.v + 1 ELSE 1]

\* loci[locus_ix].genotype[strain_ix].1 = new_genotype: the dosage stored
StoreDosage(old, new) == new

\* Locus::cm of the locus of (0-based) index ix
Cm(loci, ix) == loci[ix + 1].marker.centi_morgan

\* the messages of the panics of the imputation
PanicIndex == "index out of bounds"

PanicUnknown == "Genotype was unknown when it shouldn't be!"

\* the result of a step of the imputation: the loci, and the panic that ended it
Ok(loci) == [loci |-> loci, panic |-> ""]

Panic(loci, msg) == [loci |-> loci, panic |-> msg]

\* EstimateEntry with prev the locus just before the entry (loci[locus_ix - 1])
\* instead of the locus just before the run
EstimateEntryFromNeighbour(dom, loci, strain_ix, range, locus_ix) ==
    IF range.start - 1 < 0 \/ range.end >= Len(loci)
    THEN Panic(loci, PanicIndex)
    ELSE
      LET prev == loci[locus_ix - 1 + 1]
          next == loci[range.end + 1]
          locus == loci[locus_ix + 1]
          prev_geno == prev.genotype[strain_ix].geno
          next_geno == next.genotype[strain_ix].geno
          cp == prev.marker.centi_morgan
          cl == locus.marker.centi_morgan
          cn == next.marker.centi_morgan
      IN  IF DosageCell(prev_geno, next_geno) = "panic"
          THEN Panic(loci, PanicUnknown)
          ELSE
            LET new_genotype == NewGenotype(prev_geno, next_geno, cp, cl, cn)
                new_dominance == NewDominance(prev_geno, next_geno, cp, cl, cn)
                d == IF dom /\ locus.dominance # None
                     THEN Some([locus.dominance[1] EXCEPT ![strain_ix] = new_dominance])
                     ELSE locus.dominance
                g == [locus.genotype EXCEPT
                        ![strain_ix].val = StoreDosage(@, new_genotype)]
            IN  Ok([loci EXCEPT ![locus_ix + 1] =
                        [locus EXCEPT !.dominance = d, !.genotype = g]])

\* The body of the innermost loop of estimate_unknown_genotypes: the entry of
\* strain strain_ix at the locus of index locus_ix, inside range.
EstimateEntry(dom, loci, strain_ix, range, locus_ix) ==
    IF range.start - 1 < 0 \/ range.end >= Len(loci)
    THEN Panic(loci, PanicIndex)
    ELSE
      LET prev == loci[range.start - 1 + 1]
          next == loci[range.end + 1]
          locus == loci[locus_ix + 1]
          prev_geno == prev.genotype[strain_ix].geno
          next_geno == next.genotype[strain_ix].geno
          cp == prev.marker.centi_morgan
          cl == locus.marker.centi_morgan
          cn == next.marker.centi_morgan
      IN  IF DosageCell(prev_geno, next_geno) = "panic"
          THEN Panic(loci, PanicUnknown)
          ELSE
            LET new_genotype == NewGenotype(prev_geno, next_geno, cp, cl, cn)
                new_dominance == NewDominance(prev_geno, next_geno, cp, cl, cn)
                d == IF dom /\ locus.dominance # None
                     THEN Some([locus.dominance[1] EXCEPT ![strain_ix] = new_dominance])
                     ELSE locus.dominance
                g == [locus.genotype EXCEPT
                        ![strain_ix].val = StoreDosage(@, new_genotype)]
            IN  Ok([loci EXCEPT ![locus_ix + 1] =
                        [locus EXCEPT !.dominance = d, !.genotype = g]])

RECURSIVE EstimateRange(_, _, _, _, _)
\* for locus_ix in range.clone(), from locus_ix on
EstimateRange(dom, loci, strain_ix, range, locus_ix) ==
    IF locus_ix >= range.end THEN Ok(loci)
    ELSE LET r == EstimateEntry(dom, loci, strain_ix, range, locus_ix)
         IN  IF r.panic # "" THEN r
             ELSE EstimateRange(dom, r.loci, strain_ix, range, locus_ix + 1)

RECURSIVE EstimateStrain(_, _, _, _, _)
\* for range in strain, from the k-th range on
EstimateStrain(dom, loci, strain_ix, ranges, k) ==
    IF k > Len(ranges) THEN Ok(loci)
    ELSE LET r == EstimateRange(dom, loci, strain_ix, ranges[k], ranges[k].start)
         IN  IF r.panic # "" THEN r
             ELSE EstimateStrain(dom, r.loci, strain_ix, ranges, k + 1)

RECURSIVE EstimateStrains(_, _, _, _)
\* for (strain_ix, strain) in intervals.0.iter().enumerate(), from strain_ix on
EstimateStrains(dom, loci, intervals, strain_ix) ==
    IF strain_ix > Len(intervals) THEN Ok(loci)
    ELSE LET r == EstimateStrain(dom, loci, strain_ix, intervals[strain_ix], 1)
         IN  IF r.panic # "" THEN r
             ELSE EstimateStrains(dom, r.loci, intervals, strain_ix + 1)

\* Locus::estimate_unknown_genotypes
estimate_unknown_genotypes(dom, loci, intervals) ==
    EstimateStrains(dom, loci, intervals, 1)

\* replace leaving the pair as it is
replace_skipped(entry) == entry

\* the closure replace of estimate_unknown on one (Genotype, dosage) pair
replace(entry) ==
    IF entry.geno = "Unk" THEN [geno |-> "Het", val |-> Lit(0)] ELSE entry

\* the closure replace_genotype of estimate_unknown on one locus
replace_genotype(locus) ==
    [locus EXCEPT !.genotype = [s \in DOMAIN locus.genotype |-> replace(locus.genotype[s])]]

\* BoundaryFixUp without replace_genotype(loci.last_mut())
BoundaryFixUpFirstOnly(loci) ==
    [loci EXCEPT ![1] = replace_genotype(loci[1])]

\* the first loop of estimate_unknown on one chromosome: its first and last locus
BoundaryFixUp(loci) ==
    LET first == [loci EXCEPT ![1] = replace_genotype(loci[1])]
    IN  [first EXCEPT ![Len(loci)] = replace_genotype(first[Len(loci)])]

\* the body of the second loop of estimate_unknown on one chromosome
EstimateChromosome(dom, loci) ==
    estimate_unknown_genotypes(dom, loci, find_unknown_intervals(loci))

RECURSIVE EstimateChromosomes(_, _, _, _)
\* the second loop of estimate_unknown over the chromosomes in the order
\* iter_mut yields them, from the k-th on; the result is the map and the panic
EstimateChromosomes(dom, chrs, order, k) ==
    IF k > Len(order) THEN [chromosomes |-> chrs, panic |-> ""]
    ELSE LET r == EstimateChromosome(dom, chrs[order[k]])
             next == [chrs EXCEPT ![order[k]] = r.loci]
         IN  IF r.panic # "" THEN [chromosomes |-> next, panic |-> r.panic]
             ELSE EstimateChromosomes(dom, next, order, k + 1)

\* Dataset::estimate_unknown on a genome whose iter_mut yields the chromosomes in
\* the order order
EstimateUnknownOf(dom, chrs, order) ==
    EstimateChromosomes(dom, [c \in DOMAIN chrs |-> BoundaryFixUp(chrs[c])], order, 1)

---------------------------------------------------------------------------
(* The dataset: Dataset::read_file *)

\* the permutations of a finite set, as sequences
Orders(S) ==
    {o \in [1..Cardinality(S) -> S] : \A i, j \in 1..Cardinality(S) : o[i] = o[j] => i = j}

\* the chromosome names of the genotype file
ChrNames == {"1", "X"}

\* the genotype columns of one line of the genotype file
Words(n) == [1..n -> Genotype]

\* Dataset::n_loci
n_loci(chrs) ==
    LET RECURSIVE Sum(_)
        Sum(S) == IF S = {} THEN 0
                  ELSE LET c == CHOOSE x \in S : TRUE
                       IN  Len(chrs[c]) + Sum(S \ {c})
    IN  Sum(DOMAIN chrs)

\* chr pushed to the chromosome order whether it is there or not
or_push_chromosome_order_always(order, chr) == Append(order, chr)

\* Genome::or_push_chromosome: the chromosome order after chr was asked for
or_push_chromosome_order(order, chr) ==
    IF \E i \in 1..Len(order) : order[i] = chr THEN order ELSE Append(order, chr)

\* Genome::or_push_chromosome: the map after chr was asked for
or_push_chromosome(chrs, chr) ==
    IF chr \in DOMAIN chrs THEN chrs
    ELSE [c \in DOMAIN chrs \cup {chr} |-> IF c = chr THEN <<>> ELSE chrs[c]]

\* Genome::push_locus: the map after locus was pushed to chr
push_locus_map(chrs, chr, locus) ==
    [or_push_chromosome(chrs, chr) EXCEPT ![chr] = Append(@, locus)]

\* the centiMorgan position of the last locus of chr (0 when it has none)
LastCm(chrs, chr) ==
    IF chr \in DOMAIN chrs /\ Len(chrs[chr]) > 0
    THEN chrs[chr][Len(chrs[chr])].marker.centi_morgan
    ELSE 0

\* One line of the genotype file read by Dataset::read_file: Locus::parse_line and
\* Genome::push_locus.  Markers are named by their line number.  The centiMorgan
\* column holds 0 or the line number, and the positions of a chromosome are
\* non-decreasing as the file stores them.
push_locus(chr, cm, words) ==
    /\ panicked = ""
    /\ runs = 0
    /\ (n_loci(chromosomes) + 1) * strains <= MaxCells
    /\ cm \in {0, n_loci(chromosomes) + 1}
    /\ cm >= LastCm(chromosomes, chr)
    /\ LET locus == parse_line(dominance, chr, n_loci(chromosomes) + 1, cm, words)
       IN  /\ chr_order' = or_push_chromosome_order(chr_order, chr)
           /\ chromosomes' = push_locus_map(chromosomes, chr, locus)
    /\ UNCHANGED <<dominance, strains, runs, panicked, scanVars, permVars, pvalueVars, regVars, kernelVars, shuffleVars, bootVars>>

\* the most calls of Dataset::estimate_unknown on one dataset
MaxRuns == 2

\* Dataset::estimate_unknown, iter_mut yielding the chromosomes in the order order
estimate_unknown(order) ==
    /\ panicked = ""
    /\ runs < MaxRuns
    /\ LET r == EstimateUnknownOf(dominance, chromosomes, order)
       IN  /\ chromosomes' = r.chromosomes
           /\ panicked' = r.panic
           /\ runs' = IF r.panic = "" THEN runs + 1 ELSE runs
    /\ UNCHANGED <<dominance, strains, chr_order, scanVars, permVars, pvalueVars, regVars, kernelVars, shuffleVars, bootVars>>

\* the genotype rows of tests::it_can_find_unknown_intervals_in_many_strains and
\* tests::it_can_estimate_unknown_genotypes
TestGenos ==
    << <<"Mat", "Mat", "Pat">>,
       <<"Unk", "Pat", "Unk">>,
       <<"Unk", "Unk", "Pat">>,
       <<"Unk", "Unk", "Unk">>,
       <<"Pat", "Mat", "Unk">>,
       <<"Pat", "Mat", "Mat">> >>

\* the centiMorgan positions (times ten) of tests::it_can_estimate_unknown_genotypes
TestCm == <<100, 303, 401, 502, 603, 701>>

\* the loci of tests::it_can_estimate_unknown_genotypes: chromosome "1"
TestLoci(dom) ==
    [i \in 1..Len(TestGenos) |-> parse_line(dom, "1", i, TestCm[i], TestGenos[i])]

\* Dataset::new: an empty genome; the cross type comes from the metadata
InitNew ==
    /\ dominance \in BOOLEAN
    /\ strains \in 1..NStrains
    /\ chr_order = <<>>
    /\ chromosomes = <<>>

\* the loci of the tests with 0 in the centiMorgan column of every line
TestLociUnplaced(dom) ==
    [i \in 1..Len(TestGenos) |-> parse_line(dom, "1", i, 0, TestGenos[i])]

\* a dataset whose only chromosome holds consecutive loci of the tests
InitTest ==
    /\ dominance \in BOOLEAN
    /\ strains = Len(TestGenos[1])
    /\ chr_order = <<"1">>
    /\ \E i, j \in 1..Len(TestGenos), loci \in {TestLoci(dominance), TestLociUnplaced(dominance)} :
          /\ i <= j
          /\ chromosomes = [c \in {"1"} |-> SubSeq(loci, i, j)]

\* no stepping of step_many_unknown_intervals_mut is under way
NoScan ==
    /\ state = InitialState(0)
    /\ fed = <<>>

\* no dataset is loaded
NoDataset ==
    /\ dominance = FALSE
    /\ strains = 0
    /\ chr_order = <<>>
    /\ chromosomes = <<>>
    /\ runs = 0
    /\ panicked = ""

\* no call of permutation is under way
NoPermutation ==
    /\ n_perms = 0
    /\ threads = 0
    /\ temp_vec = <<>>
    /\ lrs_vec = <<>>
    /\ perm_pc = ""

\* no call of pvalue was made
NoPvalue ==
    /\ permutations = <<>>
    /\ calls = <<>>

\* no call of regression is under way
NoRegression ==
    /\ control = None
    /\ strain_ixs = <<>>
    /\ hash_order = <<>>
    /\ control_geno = None
    /\ result = <<>>
    /\ cursor = 0
    /\ reg_pc = ""

\* no kernel is at its clamp
NoKernel == kernel = <<>>

\* no call of permuted_mut is under way
NoShuffle ==
    /\ data_in = <<>>
    /\ data = <<>>
    /\ shuffle_ix = 0
    /\ draws = <<>>

\* no call of bootstrap is under way
NoBootstrap ==
    /\ n_boot = 0
    /\ locus_count = <<>>
    /\ boot_i = 0
    /\ replicate = <<>>
    /\ boot_pc = ""

Init ==
    /\ InitNew \/ InitTest
    /\ runs = 0
    /\ panicked = ""
    /\ NoScan
    /\ NoPermutation
    /\ NoPvalue
    /\ NoRegression
    /\ NoKernel
    /\ NoShuffle
    /\ NoBootstrap

Next ==
    \/ \E chr \in ChrNames, cm \in {0, n_loci(chromosomes) + 1}, words \in Words(strains) :
          push_locus(chr, cm, words)
    \/ \E order \in Orders(DOMAIN chromosomes) : estimate_unknown(order)

Spec == Init /\ [][Next]_vars

---------------------------------------------------------------------------
(* Stepping step_many_unknown_intervals_mut, one locus at a time *)

\* the (Genotype, dosage) pairs of a row of genotype symbols
ParseRow(words) == [i \in 1..Len(words) |-> parse_genotype(words[i])]

\* the number of strains of the state being stepped
ScanStrains == Len(state[1])

\* One call of step_many_unknown_intervals_mut with the next index and the row words
StepRow(words) ==
    /\ state' = step_many_unknown_intervals_mut(state, Len(fed), ParseRow(words))
    /\ fed' = Append(fed, ParseRow(words))
    /\ UNCHANGED <<datasetVars, permVars, pvalueVars, regVars, kernelVars, shuffleVars, bootVars>>

\* a call with any row of the state's number of strains
StepAny ==
    /\ (Len(fed) + 1) * ScanStrains <= MaxEntries
    /\ \E words \in [1..ScanStrains -> Genotype] : StepRow(words)

\* one iteration of the loop of tests::it_can_find_unknown_intervals_in_many_strains
StepTest ==
    /\ ScanStrains = Len(TestGenos[1])
    /\ Len(fed) < Len(TestGenos)
    /\ fed = [i \in 1..Len(fed) |-> ParseRow(TestGenos[i])]
    /\ StepRow(TestGenos[Len(fed) + 1])

InitScan ==
    /\ NoDataset
    /\ NoPermutation
    /\ NoPvalue
    /\ NoRegression
    /\ NoKernel
    /\ NoShuffle
    /\ NoBootstrap
    /\ \E n \in 1..MaxScanStrains : state = InitialState(n)
    /\ fed = <<>>

NextScan == StepAny \/ StepTest

SpecScan == InitScan /\ [][NextScan]_vars

---------------------------------------------------------------------------
(* permutation (regression.rs): the workers, their trials and the collected,
   sorted vector.  A trial's value lrs_max is the largest LRS of a scan of
   the permuted trait; it starts at 0.0 and f64::max only raises it, so it
   is never negative and never NaN.  It is drawn from LrsValues. *)

MaxPerms == 4

MaxThreads == 3

MaxLrs == 2

LrsValues == 0..MaxLrs

\* let threads = threads.max(1)
Threads == IF threads > 1 THEN threads ELSE 1

\* the number of trials of one worker: 0..(n_perms / threads)
Quota == n_perms \div Threads

\* vecs.into_iter().flatten().collect()
RECURSIVE flatten(_)

flatten(vecs) ==
    IF vecs = <<>> THEN <<>> ELSE Head(vecs) \o flatten(Tail(vecs))

\* the place of x in an ascending vector, behind the elements equal to it
RECURSIVE Insert(_, _)

Insert(sorted, x) ==
    IF sorted = <<>> THEN <<x>>
    ELSE IF x < Head(sorted) THEN <<x>> \o sorted
    ELSE <<Head(sorted)>> \o Insert(Tail(sorted), x)

\* the sort left out
sort_by_skipped(v) == v

\* v.sort_by(|x, y| x.partial_cmp(y).unwrap()): a stable ascending sort
RECURSIVE sort_by(_)

sort_by(v) ==
    IF v = <<>> THEN <<>>
    ELSE Insert(sort_by(SubSeq(v, 1, Len(v) - 1)), v[Len(v)])

\* one trial of worker w: temp_vec.push(lrs_max)
Trial(w, lrs_max) ==
    /\ perm_pc = "run"
    /\ Len(temp_vec[w]) < Quota
    /\ temp_vec' = [temp_vec EXCEPT ![w] = Append(@, lrs_max)]
    /\ UNCHANGED <<n_perms, threads, lrs_vec, perm_pc>>
    /\ UNCHANGED <<datasetVars, scanVars, pvalueVars, regVars, kernelVars, shuffleVars, bootVars>>

\* every worker has returned its temp_vec: flatten, sort, return.  The
\* layout of the workers' vectors in vecs is rayon's and is left open.
Collect(order) ==
    /\ perm_pc = "run"
    /\ \A w \in 1..Threads : Len(temp_vec[w]) = Quota
    /\ lrs_vec' = sort_by(flatten([k \in 1..Threads |-> temp_vec[order[k]]]))
    /\ perm_pc' = "done"
    /\ UNCHANGED <<n_perms, threads, temp_vec>>
    /\ UNCHANGED <<datasetVars, scanVars, pvalueVars, regVars, kernelVars, shuffleVars, bootVars>>

InitPerm ==
    /\ NoDataset
    /\ NoScan
    /\ NoPvalue
    /\ NoRegression
    /\ NoKernel
    /\ NoShuffle
    /\ NoBootstrap
    /\ n_perms \in 0..MaxPerms
    /\ threads \in 0..MaxThreads
    /\ temp_vec = [w \in 1..Threads |-> <<>>]
    /\ lrs_vec = <<>>
    /\ perm_pc = "run"

NextPerm ==
    \/ \E w \in 1..Threads, lrs_max \in LrsValues : Trial(w, lrs_max)
    \/ \E order \in Orders(1..Threads) : Collect(order)

SpecPerm == InitPerm /\ [][NextPerm]_vars

---------------------------------------------------------------------------
(* pvalue (regression.rs).  An f64 is a record: NaN, or the fraction
   num / den with den > 0. *)

FNaN == [nan |-> TRUE, num |-> 0, den |-> 1]

F(num, den) == [nan |-> FALSE, num |-> num, den |-> den]

\* (i as f64) / (n as f64) for 0 <= i <= n: 0.0 / 0.0 is NaN
FDiv(i, n) == IF n = 0 THEN FNaN ELSE F(i, n)

\* a - b
FSub(a, b) ==
    IF a.nan \/ b.nan THEN FNaN
    ELSE F(a.num * b.den - b.num * a.den, a.den * b.den)

\* a <= b, false when either is NaN
FLe(a, b) == ~a.nan /\ ~b.nan /\ a.num * b.den <= b.num * a.den

\* a == b, false when either is NaN
FEq(a, b) == ~a.nan /\ ~b.nan /\ a.num * b.den = b.num * a.den

\* f64::max: the other operand when one is NaN
f64_max(a, b) ==
    IF a.nan THEN b
    ELSE IF b.nan THEN a
    ELSE IF FLe(a, b) THEN b ELSE a

\* f64::min: the other operand when one is NaN
f64_min(a, b) ==
    IF a.nan THEN b
    ELSE IF b.nan THEN a
    ELSE IF FLe(a, b) THEN a ELSE b

\* the count with ties left out
RECURSIVE take_while_count_strict(_, _)

take_while_count_strict(temp, lrs) ==
    IF temp = <<>> \/ ~(Head(temp) < lrs) THEN 0
    ELSE 1 + take_while_count_strict(Tail(temp), lrs)

\* temp.iter().take_while(|v| **v <= lrs).count()
RECURSIVE take_while_count(_, _)

take_while_count(temp, lrs) ==
    IF temp = <<>> \/ ~(Head(temp) <= lrs) THEN 0
    ELSE 1 + take_while_count(Tail(temp), lrs)

\* the fraction at most lrs, where pvalue returns the fraction above it
pvalue_fraction_at_most(lrs, perms) ==
    LET temp == sort_by(perms)
        i == take_while_count(temp, lrs)
        n == Len(perms)
    IN  f64_min(f64_max(FDiv(i, n), F(0, 1)), F(1, 1))

pvalue(lrs, perms) ==
    LET temp == sort_by(perms)
        i == take_while_count(temp, lrs)
        n == Len(perms)
    IN  f64_min(f64_max(FSub(F(1, 1), FDiv(i, n)), F(0, 1)), F(1, 1))

\* the number of calls of pvalue that are kept
MaxCalls == 2

\* the observed LRS values pvalue is called with
ObservedLrs == 0..(MaxLrs + 1)

\* one call of pvalue; permutations is borrowed and only its copy is sorted
pvalue_call(lrs) ==
    LET call == [lrs |-> lrs, p |-> pvalue(lrs, permutations)]
    IN  /\ calls' = IF Len(calls) < MaxCalls THEN Append(calls, call)
                    ELSE Append(Tail(calls), call)
        /\ UNCHANGED permutations
        /\ UNCHANGED <<datasetVars, scanVars, permVars, regVars, kernelVars, shuffleVars, bootVars>>

RECURSIVE SeqsUpTo(_, _)

\* the sequences over S of length n at most
SeqsUpTo(S, n) ==
    IF n = 0 THEN {<<>>}
    ELSE LET shorter == SeqsUpTo(S, n - 1)
         IN  shorter \cup {Append(q, x) : q \in shorter, x \in S}

InitPvalue ==
    /\ NoDataset
    /\ NoScan
    /\ NoPermutation
    /\ NoRegression
    /\ NoKernel
    /\ NoShuffle
    /\ NoBootstrap
    /\ permutations \in SeqsUpTo(LrsValues, MaxPerms)
    /\ calls = <<>>

NextPvalue == \E lrs \in ObservedLrs : pvalue_call(lrs)

SpecPvalue == InitPvalue /\ [][NextPvalue]_vars

---------------------------------------------------------------------------
(* regression (regression.rs): the scan of one trait over a loaded dataset.
   The kernels' arithmetic is not unfolded: a value a kernel returns is the
   term Out(field, call) naming the field and the call that computed it. *)

MaxRegLoci == 2

\* the genotype columns of the lines of a two-strain genotype file
RegWords == {<<"Mat", "Het">>, <<"Unk", "Pat">>, <<"Pat", "Mat">>}

\* the lines of the genotype file: chromosome and genotype columns
RegLines == {<<chr, words>> : chr \in ChrNames, words \in RegWords}

\* the requested strains, as Dataset::strain_indices returns them
StrainIxs == {<<0, 1>>, <<1, 0>>, <<1>>}

\* the loop of Dataset::read_file over the lines of the file; line n holds
\* marker n at position n
RECURSIVE read_lines(_, _)

read_lines(dom, lines) ==
    IF lines = <<>> THEN [order |-> <<>>, chromosomes |-> <<>>]
    ELSE LET n == Len(lines)
             before == read_lines(dom, SubSeq(lines, 1, n - 1))
             locus == parse_line(dom, lines[n][1], n, n, lines[n][2])
         IN  [order |-> or_push_chromosome_order(before.order, lines[n][1]),
              chromosomes |-> push_locus_map(before.chromosomes, lines[n][1], locus)]

\* Locus::genotypes_subset; strain indices count from 0
genotypes_subset(locus, ixs) ==
    [i \in 1..Len(ixs) |-> locus.genotype[ixs[i] + 1]]

\* Locus::dominance_subset: the dominance coefficients of the strains
dominance_subset(locus, ixs) ==
    [i \in 1..Len(ixs) |-> locus.dominance[1][ixs[i] + 1]]

\* Genome::find_locus: the locus of the marker named name, if any
find_locus(chrs, name) ==
    LET found == {x \in UNION {{<<c, k>> : k \in DOMAIN chrs[c]} : c \in DOMAIN chrs} :
                     chrs[x[1]][x[2]].marker.name = name}
    IN  IF found = {} THEN None
        ELSE LET x == CHOOSE y \in found : TRUE IN Some(chrs[x[1]][x[2]])

Out(field, call) == [of |-> field, call |-> call]

regression_2n(traits, genotypes) ==
    LET call == [kernel |-> "regression_2n", traits |-> traits,
                 genotypes |-> genotypes, controls |-> <<>>, diff |-> FALSE]
    IN  [lrs |-> Out("lrs", call), additive |-> Out("b", call), dominance |-> None]

regression_3n(traits, genotypes, controls, diff) ==
    LET call == [kernel |-> "regression_3n", traits |-> traits,
                 genotypes |-> genotypes, controls |-> controls, diff |-> diff]
    IN  [lrs |-> Out("lrs", call), additive |-> Out("betax", call),
         dominance |-> Some(Out("betac", call))]

\* the choice with the control marker regressed against the plain baseline
reg_result_plain_baseline(dom, c_geno, locus, ixs) ==
    LET genotypes == genotypes_subset(locus, ixs)
    IN  IF c_geno = None
        THEN IF dom
             THEN regression_3n("traits", genotypes, dominance_subset(locus, ixs), FALSE)
             ELSE regression_2n("traits", genotypes)
        ELSE regression_3n("traits", genotypes, c_geno[1], FALSE)

\* the match on control_geno of regression, but for its panic
reg_result(dom, c_geno, locus, ixs) ==
    LET genotypes == genotypes_subset(locus, ixs)
    IN  IF c_geno = None
        THEN IF dom
             THEN regression_3n("traits", genotypes, dominance_subset(locus, ixs), FALSE)
             ELSE regression_2n("traits", genotypes)
        ELSE regression_3n("traits", genotypes, c_geno[1], TRUE)

\* Genome::iter: the chromosomes in the order of chr_order, each with its loci
GenomeIter(order, chrs) == [k \in 1..Len(order) |-> chrs[order[k]]]

\* the loci as dataset.genome.chromosomes.iter() and loci.iter() yield them
ScanLoci == flatten([k \in 1..Len(hash_order) |-> chromosomes[hash_order[k]]])

\* regression up to its loop: strain_ixs is given, control_geno is looked up;
\* find_locus(c).unwrap() panics when the genome has no such marker
regression_control ==
    /\ reg_pc = "call"
    /\ LET found == IF control = None THEN None
                    ELSE find_locus(chromosomes, control[1])
       IN  IF control # None /\ found = None
           THEN /\ reg_pc' = "panic: called Option::unwrap() on a None value"
                /\ UNCHANGED control_geno
           ELSE /\ control_geno' = IF control = None THEN None
                                   ELSE Some(genotypes_subset(found[1], strain_ixs))
                /\ reg_pc' = "scan"
    /\ UNCHANGED <<control, strain_ixs, hash_order, result, cursor>>
    /\ UNCHANGED <<datasetVars, scanVars, permVars, pvalueVars, kernelVars, shuffleVars, bootVars>>

\* one pass of the loop body: the next locus is entered, its genotypes are
\* taken, and the kernel runs or the unsupported combination panics
regression_locus ==
    /\ reg_pc = "scan"
    /\ cursor < Len(ScanLoci)
    /\ cursor' = cursor + 1
    /\ LET locus == ScanLoci[cursor + 1]
       IN  IF control_geno # None /\ dominance
           THEN /\ reg_pc' = "panic: reaper: no composite regression for intercross"
                /\ UNCHANGED result
           ELSE LET r == reg_result(dominance, control_geno, locus, strain_ixs)
                IN  /\ result' = Append(result, [lrs |-> r.lrs,
                                                 additive |-> r.additive,
                                                 dominance |-> r.dominance,
                                                 marker |-> locus.marker])
                    /\ UNCHANGED reg_pc
    /\ UNCHANGED <<control, strain_ixs, hash_order, control_geno>>
    /\ UNCHANGED <<datasetVars, scanVars, permVars, pvalueVars, kernelVars, shuffleVars, bootVars>>

\* the loops are over: result is returned
regression_return ==
    /\ reg_pc = "scan"
    /\ cursor = Len(ScanLoci)
    /\ reg_pc' = "returned"
    /\ UNCHANGED <<control, strain_ixs, hash_order, control_geno, result, cursor>>
    /\ UNCHANGED <<datasetVars, scanVars, permVars, pvalueVars, kernelVars, shuffleVars, bootVars>>

\* regression is called on a dataset Dataset::read_file has returned
InitReg ==
    /\ NoScan
    /\ NoPermutation
    /\ NoPvalue
    /\ NoKernel
    /\ NoShuffle
    /\ NoBootstrap
    /\ dominance \in BOOLEAN
    /\ \E lines \in SeqsUpTo(RegLines, MaxRegLoci) :
          LET pushed == read_lines(dominance, lines)
              r == EstimateUnknownOf(dominance, pushed.chromosomes, pushed.order)
          IN  /\ r.panic = ""
              /\ chr_order = pushed.order
              /\ chromosomes = r.chromosomes
    /\ strains = 2
    /\ runs = 1
    /\ panicked = ""
    /\ control \in {None} \cup {Some(m) : m \in 1..(MaxRegLoci + 1)}
    /\ strain_ixs \in StrainIxs
    /\ hash_order \in Orders(DOMAIN chromosomes)
    /\ control_geno = None
    /\ result = <<>>
    /\ cursor = 0
    /\ reg_pc = "call"

NextReg ==
    \/ regression_control
    \/ regression_locus
    \/ regression_return

SpecReg == InitReg /\ [][NextReg]_vars

---------------------------------------------------------------------------
(* The end of the regression kernels (regression.rs): the clamp of the LRS
   and the RegResult returned.  The sums and the coefficients computed before
   it are arbitrary f64 values, drawn from F64Values. *)

\* the finite values of F64Values are -MaxMagnitude..MaxMagnitude
MaxMagnitude == 1

\* an infinity, by its sign
Inf(sign) == [Lit(sign) EXCEPT !.k = "inf"]

F64Values ==
    {NaN, Inf(0 - 1), Inf(1)} \cup {Lit(v) : v \in (0 - MaxMagnitude)..MaxMagnitude}

\* lrs.is_nan()
is_nan(x) == x.k = "nan"

\* x < 0.0, false for NaN
LtZero(x) == x.k \in {"lit", "inf"} /\ x.v < 0

\* if lrs.is_nan() || lrs < 0.0 { b = 0.0; lrs = 0.0; } and the RegResult
clamp_2n(lrs, b) ==
    IF is_nan(lrs) \/ LtZero(lrs)
    THEN [lrs |-> Lit(0), additive |-> Lit(0), dominance |-> None]
    ELSE [lrs |-> lrs, additive |-> b, dominance |-> None]

\* the clamp that resets the additive coefficient only
clamp_3n_betax_only(lrs, betax, betac) ==
    IF is_nan(lrs) \/ LtZero(lrs)
    THEN [lrs |-> Lit(0), additive |-> Lit(0), dominance |-> Some(betac)]
    ELSE [lrs |-> lrs, additive |-> betax, dominance |-> Some(betac)]

\* if lrs.is_nan() || lrs < 0.0 { betax = 0.0; lrs = 0.0; betac = 0.0; } and
\* the RegResult
clamp_3n(lrs, betax, betac) ==
    IF is_nan(lrs) \/ LtZero(lrs)
    THEN [lrs |-> Lit(0), additive |-> Lit(0), dominance |-> Some(Lit(0))]
    ELSE [lrs |-> lrs, additive |-> betax, dominance |-> Some(betac)]

\* regression_2n has computed lrs and b, and returns
return_2n ==
    /\ kernel # <<>>
    /\ kernel.fn = "regression_2n"
    /\ kernel.ret = None
    /\ kernel' = [kernel EXCEPT !.ret = Some(clamp_2n(kernel.lrs, kernel.b))]
    /\ UNCHANGED <<datasetVars, scanVars, permVars, pvalueVars, regVars, shuffleVars, bootVars>>

\* regression_3n has computed lrs, betax and betac, and returns
return_3n ==
    /\ kernel # <<>>
    /\ kernel.fn = "regression_3n"
    /\ kernel.ret = None
    /\ kernel' = [kernel EXCEPT
                    !.ret = Some(clamp_3n(kernel.lrs, kernel.betax, kernel.betac))]
    /\ UNCHANGED <<datasetVars, scanVars, permVars, pvalueVars, regVars, shuffleVars, bootVars>>

InitKernel ==
    /\ NoDataset
    /\ NoScan
    /\ NoPermutation
    /\ NoPvalue
    /\ NoRegression
    /\ NoShuffle
    /\ NoBootstrap
    /\ \/ kernel \in [fn : {"regression_2n"}, lrs : F64Values, b : F64Values,
                     ret : {None}]
       \/ kernel \in [fn : {"regression_3n"}, lrs : F64Values, betax : F64Values,
                     betac : F64Values, ret : {None}]

NextKernel ==
    \/ return_2n
    \/ return_3n

SpecKernel == InitKernel /\ [][NextKernel]_vars

---------------------------------------------------------------------------
(* bootstrap (regression.rs).  The LRS of each locus of a replicate depends
   on the random bootstrap_indices; it is what a kernel returns, so it is
   never NaN and never negative, and it is drawn from LrsValues.  The
   constants of the source, 1000 and 1000000, are scaled down so that the
   replicates can be enumerated. *)

\* const BOOTSTRAP_TESTSIZE: usize = 1000, scaled down
BOOTSTRAP_TESTSIZE == 2

\* const MAXPERMUTATION: usize = 1000000, scaled down
MAXPERMUTATION == 4

\* the most loci of the dataset of a bootstrap
MaxBootLoci == 2

\* line n of the genotype file of the bootstrap: odd lines on chromosome "1",
\* even lines on chromosome "X"
BootLine(n) == <<IF n % 2 = 1 THEN "1" ELSE "X", <<"Mat", "Pat">> >>

\* n_boot taken as it is
n_test_unbounded(n) == n

\* let n_test = n_boot.max(BOOTSTRAP_TESTSIZE).min(MAXPERMUTATION)
n_test(n) ==
    LET least == IF n > BOOTSTRAP_TESTSIZE THEN n ELSE BOOTSTRAP_TESTSIZE
    IN  IF least < MAXPERMUTATION THEN least ELSE MAXPERMUTATION

\* the loops with ties going to the later locus
RECURSIVE scan_max_ties_last(_, _, _, _)

scan_max_ties_last(lrs, l, lrs_max, lrs_max_pos) ==
    IF l = Len(lrs) THEN lrs_max_pos
    ELSE IF lrs_max <= lrs[l + 1]
         THEN scan_max_ties_last(lrs, l + 1, lrs[l + 1], l)
         ELSE scan_max_ties_last(lrs, l + 1, lrs_max, lrs_max_pos)

\* the loops over the loci of one replicate, l loci done: lrs[l + 1] is the
\* LRS of the locus at index l of the scan; returns lrs_max_pos
RECURSIVE scan_max(_, _, _, _)

scan_max(lrs, l, lrs_max, lrs_max_pos) ==
    IF l = Len(lrs) THEN lrs_max_pos
    ELSE IF lrs_max < lrs[l + 1]
         THEN scan_max(lrs, l + 1, lrs[l + 1], l)
         ELSE scan_max(lrs, l + 1, lrs_max, lrs_max_pos)

\* bootstrap up to its loop: locus_count is allocated, control_geno looked up
bootstrap_begin ==
    /\ boot_pc = "call"
    /\ locus_count' = [l \in 1..n_loci(chromosomes) |-> 0]
    /\ LET found == IF control = None THEN None
                    ELSE find_locus(chromosomes, control[1])
       IN  IF control # None /\ found = None
           THEN /\ boot_pc' = "panic: called Option::unwrap() on a None value"
                /\ UNCHANGED control_geno
           ELSE /\ control_geno' = IF control = None THEN None
                                   ELSE Some(genotypes_subset(found[1], strain_ixs))
                /\ boot_pc' = "run"
    /\ UNCHANGED <<n_boot, boot_i, replicate>>
    /\ UNCHANGED <<control, strain_ixs, hash_order, result, cursor, reg_pc>>
    /\ UNCHANGED <<datasetVars, scanVars, permVars, pvalueVars, kernelVars, shuffleVars>>

\* one replicate: the scan of the resampled trait and locus_count[lrs_max_pos] += 1,
\* which panics on a genome without loci
bootstrap_replicate(lrs) ==
    /\ boot_pc = "run"
    /\ boot_i < n_test(n_boot)
    /\ LET lrs_max_pos == scan_max(lrs, 0, 0, 0)
       IN  IF Len(locus_count) = 0
           THEN /\ boot_pc' = "panic: index out of bounds"
                /\ UNCHANGED <<locus_count, boot_i, replicate>>
           ELSE /\ locus_count' = [locus_count EXCEPT ![lrs_max_pos + 1] = @ + 1]
                /\ boot_i' = boot_i + 1
                /\ replicate' = Some([lrs |-> lrs, before |-> locus_count])
                /\ UNCHANGED boot_pc
    /\ UNCHANGED <<n_boot, regVars>>
    /\ UNCHANGED <<datasetVars, scanVars, permVars, pvalueVars, kernelVars, shuffleVars>>

\* the replicates are done: locus_count is returned
bootstrap_return ==
    /\ boot_pc = "run"
    /\ boot_i = n_test(n_boot)
    /\ boot_pc' = "returned"
    /\ UNCHANGED <<n_boot, locus_count, boot_i, replicate, regVars>>
    /\ UNCHANGED <<datasetVars, scanVars, permVars, pvalueVars, kernelVars, shuffleVars>>

\* bootstrap is called on a dataset Dataset::read_file has returned
InitBoot ==
    /\ NoScan
    /\ NoPermutation
    /\ NoPvalue
    /\ NoKernel
    /\ NoShuffle
    /\ dominance \in BOOLEAN
    /\ strains = 2
    /\ \E k \in 0..MaxBootLoci :
          LET pushed == read_lines(dominance, [n \in 1..k |-> BootLine(n)])
          IN  /\ chr_order = pushed.order
              /\ chromosomes = pushed.chromosomes
    /\ runs = 1
    /\ panicked = ""
    /\ control \in {None, Some(1)}
    /\ strain_ixs = <<0, 1>>
    /\ hash_order \in Orders(DOMAIN chromosomes)
    /\ control_geno = None
    /\ result = <<>>
    /\ cursor = 0
    /\ reg_pc = ""
    /\ n_boot \in 0..(MAXPERMUTATION + 1)
    /\ locus_count = <<>>
    /\ boot_i = 0
    /\ replicate = None
    /\ boot_pc = "call"

NextBoot ==
    \/ bootstrap_begin
    \/ \E lrs \in [1..Len(locus_count) -> LrsValues] : bootstrap_replicate(lrs)
    \/ bootstrap_return

SpecBoot == InitBoot /\ [][NextBoot]_vars

---------------------------------------------------------------------------
(* Run detection and estimation on a chromosome as it was read *)

\* Locus::find_unknown_intervals followed by Locus::estimate_unknown_genotypes on
\* the loci of chr, which estimate_unknown's first loop did not touch
impute_chromosome(chr) ==
    /\ panicked = ""
    /\ runs < MaxRuns
    /\ chr \in DOMAIN chromosomes
    /\ LET r == EstimateChromosome(dominance, chromosomes[chr])
       IN  /\ chromosomes' = [chromosomes EXCEPT ![chr] = r.loci]
           /\ panicked' = r.panic
           /\ runs' = IF r.panic = "" THEN runs + 1 ELSE runs
    /\ UNCHANGED <<dominance, strains, chr_order, scanVars, permVars, pvalueVars, regVars, kernelVars, shuffleVars, bootVars>>

\* the lines of one chromosome, or consecutive loci of the tests
InitChr == Init

NextChr ==
    \/ \E cm \in {0, n_loci(chromosomes) + 1}, words \in Words(strains) :
          push_locus("1", cm, words)
    \/ \E chr \in DOMAIN chromosomes : impute_chromosome(chr)

SpecChr == InitChr /\ [][NextChr]_vars

---------------------------------------------------------------------------
(* The shuffle of the permutation trials: permuted_mut *)

\* the longest slice shuffled
MaxShuffle == 3

\* slice::swap(i, j) on 0-based indices
swap(v, i, j) == [v EXCEPT ![i + 1] = v[j + 1], ![j + 1] = v[i + 1]]

RECURSIVE PermutedFrom(_, _, _)
\* the loop of permuted_mut from the index ix on, gen_range returning js[ix + 1]
\* at the index ix
PermutedFrom(v, js, ix) ==
    IF ix >= Len(v) THEN v
    ELSE PermutedFrom(swap(v, ix, js[ix + 1]), js, ix + 1)

\* permuted_mut on the slice v when gen_range returns js, one value per index
permuted_mut(v, js) == PermutedFrom(v, js, 0)

\* the sequences of values gen_range(0, n) can return during one call
DrawSequences(n) == [1..n -> 0..(n - 1)]

\* one iteration of the loop of permuted_mut, gen_range(0, n) returning j
permuted_mut_step(j) ==
    /\ shuffle_ix < Len(data)
    /\ j \in 0..(Len(data) - 1)
    /\ data' = swap(data, shuffle_ix, j)
    /\ shuffle_ix' = shuffle_ix + 1
    /\ draws' = Append(draws, j)
    /\ UNCHANGED <<data_in, datasetVars, scanVars, permVars, pvalueVars, regVars, kernelVars, bootVars>>

\* p_traits at a call of permuted_mut: distinct trait values in any order
InitShuffle ==
    /\ \E n \in 0..MaxShuffle : data_in \in Orders(1..n)
    /\ data = data_in
    /\ shuffle_ix = 0
    /\ draws = <<>>
    /\ NoDataset
    /\ NoScan
    /\ NoPermutation
    /\ NoPvalue
    /\ NoRegression
    /\ NoKernel
    /\ NoBootstrap

NextShuffle == \E j \in 0..(MaxShuffle - 1) : permuted_mut_step(j)

SpecShuffle == InitShuffle /\ [][NextShuffle]_vars

---------------------------------------------------------------------------
(* Claims *)

\* the (chromosome, locus, strain) places of the genotype matrix
Entries ==
    UNION {UNION {{<<c, i, s>> : s \in DOMAIN chromosomes[c][i].genotype} :
                    i \in 1..Len(chromosomes[c])} :
             c \in DOMAIN chromosomes}

EntryAt(x) == chromosomes[x[1]][x[2]].genotype[x[3]]

\* an entry that was imputed: tagged Unknown, carrying an estimate
Imputed(x) == EntryAt(x).geno = "Unk" /\ EntryAt(x).val # Lit(99)

\* C1: once Dataset::estimate_unknown has run, no entry of any locus of any
\* chromosome carries the sentinel dosage 99.0
C1_NoSentinelAfterEstimate ==
    runs >= 1 => \A x \in Entries : EntryAt(x).val # Lit(99)

\* C1 witness: estimate_unknown has run on a dataset and imputed an entry
C1_Witness ==
    runs = 1 /\ \E x \in Entries : Imputed(x) /\ EntryAt(x).val.k = "est"

\* C2: a second run of estimate_unknown leaves every genotype tag, every dosage
\* and every dominance coefficient as the first run left them
C2_SecondRunChangesNothing ==
    [][(runs >= 1 /\ runs' = runs + 1) => chromosomes' = chromosomes]_vars

\* C2 witness: estimate_unknown has run twice on a dataset with imputed entries
C2_Witness ==
    runs = 2 /\ \E x \in Entries : Imputed(x)

\* the maximal runs of Unknown of strain s among the rows fed so far that are
\* closed by a later row: start..end with every index of start..end-1 Unknown,
\* end not Unknown, and start the first index or preceded by a row not Unknown
ClosedRuns(s) ==
    {r \in [start : 0..Len(fed), end : 0..Len(fed)] :
        /\ r.start < r.end
        /\ r.end < Len(fed)
        /\ \A i \in r.start..(r.end - 1) : fed[i + 1][s].geno = "Unk"
        /\ fed[r.end + 1][s].geno # "Unk"
        /\ r.start = 0 \/ fed[r.start][s].geno # "Unk"}

\* C3: after the loci of indices 0..k-1 were fed in order, the ranges of every
\* strain are exactly its maximal runs of Unknown closed within those loci, in
\* increasing order; a run still open has produced no range
C3_RangesAreClosedRuns ==
    \A s \in 1..ScanStrains :
        LET q == state[2][s]
        IN  /\ {q[k] : k \in 1..Len(q)} = ClosedRuns(s)
            /\ Len(q) = Cardinality(ClosedRuns(s))
            /\ \A k \in 1..(Len(q) - 1) : q[k].end < q[k + 1].start

\* C3 witness: the six rows of the test were fed and gave strain0 [1,4),
\* strain1 [2,4), strain2 [1,2) and [3,5)
C3_Witness ==
    /\ fed = [i \in 1..Len(TestGenos) |-> ParseRow(TestGenos[i])]
    /\ state[2] = << <<Range(1, 4)>>, <<Range(2, 4)>>, <<Range(1, 2), Range(3, 5)>> >>


\* the number of v in q
Count(q, v) == Cardinality({i \in DOMAIN q : q[i] = v})

\* the number of v the workers have recorded
Recorded(v) ==
    Cardinality(UNION {{<<w, i>> : i \in {j \in DOMAIN temp_vec[w] : temp_vec[w][j] = v}}
                       : w \in DOMAIN temp_vec})

IsAscending(q) == \A i, j \in DOMAIN q : i < j => q[i] <= q[j]

\* C4: permutation returns exactly n_perms values, whatever the thread count.
C4_ReturnsNPermsValues == perm_pc = "done" => Len(lrs_vec) = n_perms

\* C5: the vector permutation returns is in ascending order and is, as a
\* multiset, the union of what the workers recorded; it is returned only when
\* every worker has done all its trials, whatever the interleaving of the
\* workers and the layout of their vectors.
C5_SortedUnionOfWorkers ==
    perm_pc = "done" =>
        /\ \A w \in DOMAIN temp_vec : Len(temp_vec[w]) = n_perms \div Cardinality(DOMAIN temp_vec)
        /\ IsAscending(lrs_vec)
        /\ \A v \in LrsValues : Count(lrs_vec, v) = Recorded(v)
        /\ \A i \in DOMAIN lrs_vec : lrs_vec[i] \in LrsValues

\* two workers of two trials each whose vectors, laid end to end in either
\* order, are not ascending
C5_Witness ==
    /\ perm_pc = "done"
    /\ threads = 2
    /\ temp_vec = << <<2, 0>>, <<1, 1>> >>
    /\ lrs_vec = <<0, 1, 1, 2>>

InUnit(p) == ~p.nan /\ 0 <= p.num /\ p.num <= p.den

\* C6: every p-value lies in [0, 1], also for the empty and for an unsorted
\* list, and of two calls on one list the one with the larger observed LRS
\* never has the larger p-value.
C6_InUnitAndMonotone ==
    /\ \A k \in DOMAIN calls : InUnit(calls[k].p)
    /\ \A a, b \in DOMAIN calls :
          calls[a].lrs <= calls[b].lrs => FLe(calls[b].p, calls[a].p)

\* an unsorted list on which the larger LRS has the strictly smaller p-value
C6_Witness ==
    /\ ~IsAscending(permutations)
    /\ Len(calls) = 2
    /\ calls[1].lrs < calls[2].lrs
    /\ ~FLe(calls[1].p, calls[2].p)

\* C7: on a non-empty list of n values of which i are <= the observed LRS,
\* pvalue returns 1 - i/n clamped to [0, 1], whatever the order of the list,
\* and it leaves the list as it was.
C7_OneMinusFractionAtMost ==
    [][/\ permutations' = permutations
       /\ Len(permutations) > 0 =>
             \A k \in DOMAIN calls' :
                LET n == Len(permutations)
                    i == Cardinality({j \in DOMAIN permutations :
                                         permutations[j] <= calls'[k].lrs})
                IN  /\ FEq(calls'[k].p, F(n - i, n))
                    /\ InUnit(calls'[k].p)]_vars

\* an unsorted list holding the observed LRS itself
C7_Witness ==
    /\ permutations = <<2, 0, 1>>
    /\ Len(calls) >= 1
    /\ calls[1].lrs = 1
    /\ FEq(calls[1].p, F(1, 3))

\* the locus of the genome that carries the marker named name
LocusNamed(name) ==
    LET x == CHOOSE y \in {<<c, k>> \in (DOMAIN chromosomes) \X (1..(MaxRegLoci + 1)) :
                              /\ k \in DOMAIN chromosomes[c]
                              /\ chromosomes[c][k].marker.name = name} : TRUE
    IN  chromosomes[x[1]][x[2]]

\* the values of vec at the requested strains, in the order requested
AtStrains(vec) == [i \in DOMAIN strain_ixs |-> vec[strain_ixs[i] + 1]]

\* C8: each result comes from the kernel the request calls for, on the
\* genotypes of its own locus at the requested strains: regression_2n for a
\* riset dataset without control; regression_3n with the locus's own dominance
\* coefficients and diff = false for an intercross without control;
\* regression_3n with the control marker's genotypes and diff = true when a
\* control is given.  All results of one request share kernel and diff.
C8_KernelByRequest ==
    /\ \A k \in DOMAIN result :
          LET q == result[k]
              locus == LocusNamed(q.marker.name)
              call == q.lrs.call
          IN  /\ q.additive.call = call
              /\ call.genotypes = AtStrains(locus.genotype)
              /\ (control = None /\ ~dominance) =>
                    /\ call.kernel = "regression_2n"
                    /\ call.controls = <<>>
              /\ (control = None /\ dominance) =>
                    /\ call.kernel = "regression_3n"
                    /\ call.controls = AtStrains(locus.dominance[1])
                    /\ call.diff = FALSE
              /\ control # None =>
                    /\ call.kernel = "regression_3n"
                    /\ call.controls = AtStrains(LocusNamed(control[1]).genotype)
                    /\ call.diff = TRUE
    /\ \A j, k \in DOMAIN result :
          /\ result[j].lrs.call.kernel = result[k].lrs.call.kernel
          /\ result[j].lrs.call.diff = result[k].lrs.call.diff

\* a scan with a control marker has returned the results of two loci, the
\* second of them not the control marker
C8_Witness ==
    /\ reg_pc = "returned"
    /\ control # None
    /\ Len(result) = 2
    /\ result[2].marker.name # control[1]
    /\ strain_ixs = <<1, 0>>

\* C9: a request on an intercross dataset with a control marker fails before
\* the scan enters any locus and never returns a result list.
C9_FailsBeforeLocusWork ==
    (dominance /\ control # None) =>
        /\ reg_pc # "returned"
        /\ cursor = 0
        /\ result = <<>>

\* C10: a result carries a dominance effect exactly when the dataset is an
\* intercross and no control marker was used.
C10_DominanceIffIntercrossNoControl ==
    \A k \in DOMAIN result :
        result[k].dominance # None <=> (dominance /\ control = None)

\* C11: regression returns one result per locus of the genome, the k-th
\* carrying the marker of the k-th locus in genome order: chromosomes as
\* Genome::iter yields them, loci of a chromosome in input order.
C11_OneResultPerLocusInGenomeOrder ==
    reg_pc = "returned" =>
        LET loci == flatten(GenomeIter(chr_order, chromosomes))
        IN  /\ Len(result) = Len(loci)
            /\ \A k \in DOMAIN result : result[k].marker = loci[k].marker

\* the f64 values that are NaN or below zero, listed
NaNOrNegative == {NaN, Inf(0 - 1)} \cup {Lit(v) : v \in (0 - MaxMagnitude - 1)..(0 - 1)}

\* C12: a kernel never returns a NaN or negative LRS.  When the computed LRS
\* is NaN or negative, the LRS and every effect estimate returned are 0 (the
\* slope of regression_2n; betax and betac of regression_3n); otherwise the
\* LRS and the estimates are returned as computed.
C12_ClampedOrUnchanged ==
    (kernel # <<>> /\ kernel.ret # None) =>
        LET r == kernel.ret[1]
            two == kernel.fn = "regression_2n"
            clamped == kernel.lrs \in NaNOrNegative
        IN  /\ r.lrs \notin NaNOrNegative
            /\ clamped =>
                  /\ r.lrs = Lit(0)
                  /\ r.additive = Lit(0)
                  /\ ~two => r.dominance = Some(Lit(0))
            /\ ~clamped =>
                  /\ r.lrs = kernel.lrs
                  /\ r.additive = (IF two THEN kernel.b ELSE kernel.betax)
                  /\ ~two => r.dominance = Some(kernel.betac)
            /\ two => r.dominance = None

\* regression_3n has computed a NaN LRS beside non-zero coefficients, and has
\* returned
C12_Witness ==
    /\ kernel # <<>>
    /\ kernel.fn = "regression_3n"
    /\ kernel.lrs = NaN
    /\ kernel.betax = Lit(1)
    /\ kernel.betac = Lit(1)
    /\ kernel.ret # None

RECURSIVE SumSeq(_)

SumSeq(q) == IF q = <<>> THEN 0 ELSE Head(q) + SumSeq(Tail(q))

\* the loci of the genome, each by its chromosome and its place
GenomePlaces == UNION {{<<c, k>> : k \in DOMAIN chromosomes[c]} : c \in DOMAIN chromosomes}

\* n_boot, but at least BOOTSTRAP_TESTSIZE and at most MAXPERMUTATION
Bounded(n) ==
    CHOOSE m \in BOOTSTRAP_TESTSIZE..MAXPERMUTATION :
        \A k \in BOOTSTRAP_TESTSIZE..MAXPERMUTATION :
            (m - n) * (m - n) <= (k - n) * (k - n)

\* C13: the count vector of bootstrap has one entry per locus of the genome;
\* each replicate adds one to one counter, so the entries sum to the number of
\* replicates done; the vector returned sums to n_boot bounded below by
\* BOOTSTRAP_TESTSIZE and above by MAXPERMUTATION, which is n_boot itself when
\* it lies between the two.
C13_CountsSumToReplicates ==
    /\ boot_pc \in {"run", "returned"} =>
          /\ Len(locus_count) = Cardinality(GenomePlaces)
          /\ SumSeq(locus_count) = boot_i
          /\ \A l \in DOMAIN locus_count : locus_count[l] >= 0
    /\ boot_pc = "returned" =>
          /\ SumSeq(locus_count) = Bounded(n_boot)
          /\ (BOOTSTRAP_TESTSIZE <= n_boot /\ n_boot <= MAXPERMUTATION) =>
                SumSeq(locus_count) = n_boot

\* a bootstrap of n_boot replicates, n_boot strictly between the two bounds,
\* has returned counts in which both loci have won
C13_Witness ==
    /\ boot_pc = "returned"
    /\ BOOTSTRAP_TESTSIZE < n_boot
    /\ n_boot < MAXPERMUTATION
    /\ Len(locus_count) = 2
    /\ locus_count[1] > 0
    /\ locus_count[2] > 0

\* the greatest of the values of q and of 0
MaxOf(q) == CHOOSE m \in {0} \cup {q[k] : k \in DOMAIN q} :
                \A k \in DOMAIN q : q[k] <= m

\* the index, from 0, of the earliest locus whose LRS is the greatest of the
\* replicate, or 0 when no LRS is above 0
EarliestMax(lrs) ==
    IF MaxOf(lrs) > 0
    THEN (CHOOSE k \in DOMAIN lrs :
             lrs[k] = MaxOf(lrs) /\ \A j \in 1..(k - 1) : lrs[j] < MaxOf(lrs)) - 1
    ELSE 0

\* the loci whose LRS is above 0 and above that of every earlier locus
Records(lrs) ==
    {k \in DOMAIN lrs : lrs[k] > 0 /\ \A j \in 1..(k - 1) : lrs[k] > lrs[j]}

\* the index, from 0, of the first of Records(lrs), or 0 when there is none
FirstRecord(lrs) ==
    IF Records(lrs) = {} THEN 0
    ELSE (CHOOSE k \in Records(lrs) : \A j \in Records(lrs) : k <= j) - 1

\* C20 as amended: a replicate adds one to the counter of the earliest locus
\* in scan order whose LRS is the greatest of the replicate, when that LRS is
\* above 0, and to the counter of locus index 0 when no LRS is above 0.
C20_EarliestMaximumWins ==
    replicate # None =>
        locus_count = [replicate[1].before EXCEPT
                          ![EarliestMax(replicate[1].lrs) + 1] = @ + 1]

\* two loci tie above 0 and the first of them has won
C20_Witness ==
    /\ replicate # None
    /\ replicate[1].lrs = <<2, 2>>
    /\ locus_count = [replicate[1].before EXCEPT ![1] = @ + 1]

\* C20: a replicate adds one to the counter of the first locus in scan order
\* whose LRS is strictly greater than every earlier locus's LRS and than 0,
\* and to the counter of locus index 0 when no LRS is above 0.
C20_FirstRecordWins ==
    replicate # None =>
        locus_count = [replicate[1].before EXCEPT
                          ![FirstRecord(replicate[1].lrs) + 1] = @ + 1]

\* the dominance coefficients of the entry x, if the dataset keeps them
DominanceAt(x) ==
    LET d == chromosomes[x[1]][x[2]].dominance
    IN  IF d = None THEN {} ELSE {d[1][x[3]]}

\* C14: every dosage and every dominance coefficient written by imputation
\* is a finite number, also when the two loci flanking a missing run have the
\* same centiMorgan position.
C14_ImputedValuesFinite ==
    runs >= 1 =>
        \A x \in Entries :
            /\ EntryAt(x).val.k # "nan"
            /\ \A d \in DominanceAt(x) : d.k # "nan"

\* loci with every Unknown entry of its first and of its last locus rewritten
\* to (Het, 0.0), and nothing else touched
FirstAndLastKnown(loci) ==
    [i \in DOMAIN loci |->
        IF i \in {1, Len(loci)}
        THEN [loci[i] EXCEPT !.genotype =
                 [s \in DOMAIN loci[i].genotype |->
                     IF loci[i].genotype[s].geno = "Unk"
                     THEN [geno |-> "Het", val |-> Lit(0)]
                     ELSE loci[i].genotype[s]]]
        ELSE loci[i]]

\* C15: in every call of Dataset::estimate_unknown the boundary fix-up rewrites
\* exactly the Unknown entries of the first and the last locus of each chromosome
\* to (Het, 0.0); every run detected afterwards has start >= 1 and end <= last
\* index with known genotypes at start - 1 and at end; the call does not panic,
\* and the first and the last locus come out as the fix-up left them.
C15_BoundaryFixUpShieldsRuns ==
    [][(runs' # runs \/ panicked' # panicked) =>
          /\ panicked' = ""
          /\ \A c \in DOMAIN chromosomes :
                LET loci == chromosomes[c]
                    fixed == FirstAndLastKnown(loci)
                    intervals == find_unknown_intervals(fixed)
                IN  /\ BoundaryFixUp(loci) = fixed
                    /\ \A s \in DOMAIN intervals :
                          \A n \in DOMAIN intervals[s] :
                             LET r == intervals[s][n]
                             IN  /\ r.start >= 1
                                 /\ r.end <= Len(loci) - 1
                                 /\ fixed[r.start].genotype[s].geno # "Unk"
                                 /\ fixed[r.end + 1].genotype[s].geno # "Unk"
                    /\ chromosomes'[c][1] = fixed[1]
                    /\ chromosomes'[c][Len(loci)] = fixed[Len(loci)]]_vars

\* the second to fifth loci of the tests, whose first locus is Unknown for the
\* first and the third strain and whose last is Unknown for the third, after
\* estimate_unknown
C15_Witness ==
    /\ runs = 1
    /\ panicked = ""
    /\ DOMAIN chromosomes = {"1"}
    /\ Len(chromosomes["1"]) = 4
    /\ chromosomes["1"][1].marker = [name |-> 2, centi_morgan |-> 303, chromosome |-> "1"]
    /\ chromosomes["1"][1].genotype[1] = [geno |-> "Het", val |-> Lit(0)]
    /\ chromosomes["1"][1].genotype[3] = [geno |-> "Het", val |-> Lit(0)]
    /\ chromosomes["1"][4].genotype[3] = [geno |-> "Het", val |-> Lit(0)]
    /\ chromosomes["1"][2].genotype[2].val.k = "est"

\* the line numbers of the loci of the genome
LineNumbers == {chromosomes[x[1]][x[2]].marker.name : x \in GenomePlaces}

\* C16: Genome::iter yields every chromosome pushed exactly once, in the order
\* in which the chromosomes were first pushed, each with the loci pushed for
\* it, in push order; the loci yielded are as many as n_loci says and as the
\* calls of push_locus (the lines read).
C16_IterInFirstPushedOrder ==
    LET yielded == GenomeIter(chr_order, chromosomes)
    IN  /\ \A i, j \in DOMAIN chr_order : chr_order[i] = chr_order[j] => i = j
        /\ {chr_order[i] : i \in DOMAIN chr_order} = DOMAIN chromosomes
        /\ \A k \in DOMAIN yielded :
              /\ Len(yielded[k]) >= 1
              /\ \A i \in DOMAIN yielded[k] :
                    yielded[k][i].marker.chromosome = chr_order[k]
              /\ \A i, j \in DOMAIN yielded[k] :
                    i < j => yielded[k][i].marker.name < yielded[k][j].marker.name
        /\ \A i, j \in DOMAIN yielded :
              i < j => yielded[i][1].marker.name < yielded[j][1].marker.name
        /\ Len(flatten(yielded)) = n_loci(chromosomes)
        /\ n_loci(chromosomes) = Cardinality(LineNumbers)
        /\ \A a \in LineNumbers, b \in LineNumbers :
              \A m \in a..b : m \in LineNumbers

\* three lines on chromosomes "X", "1", "X": "X" is yielded first, with its
\* two loci
C16_Witness ==
    /\ chr_order = <<"X", "1">>
    /\ Len(chromosomes["X"]) = 2
    /\ chromosomes["X"][2].marker.name = 3
    /\ chromosomes["1"][1].marker.name = 2

\* strain s of the loci has a run of Unknown genotypes that begins at the first
\* locus or reaches the last one: a flanking locus is missing
BoundaryRun(loci, s) ==
    loci[1].genotype[s].geno = "Unk" \/ loci[Len(loci)].genotype[s].geno = "Unk"

\* C17: run detection and estimation applied to a chromosome without the
\* boundary fix-up never complete normally when a strain's run of Unknown
\* genotypes begins at the first locus or reaches the last one (the genotype
\* tags are not changed by the estimation, so such a run shows after it too).
C17_BoundaryRunIsFatal ==
    (runs >= 1 /\ panicked = "") =>
        \A c \in DOMAIN chromosomes : \A s \in 1..strains :
            ~BoundaryRun(chromosomes[c], s)

\* the number of draw sequences under which permuted_mut turns v into o: with
\* uniform draws, the probability of o times Len(v)^Len(v)
Ways(v, o) == Cardinality({js \in DrawSequences(Len(v)) : permuted_mut(v, js) = o})

\* C18: permuted_mut is uniform: once it has shuffled a slice of distinct values
\* (the slice is what the loop made of the slice given, under the draws made),
\* every ordering of the slice given arises under equally many of the equally
\* likely draw sequences.
C18_ShuffleUniform ==
    shuffle_ix = Len(data) =>
        /\ data = permuted_mut(data_in, draws)
        /\ \A o1, o2 \in Orders(1..Len(data_in)) :
              Ways(data_in, o1) = Ways(data_in, o2)

\* the genotype tag of strain s at the i-th locus
TagAt(loci, i, s) == loci[i].genotype[s].geno

\* the entry of strain s at the i-th locus lies in a run of Unknown genotypes
\* that a later known genotype closes
InClosedRun(loci, i, s) ==
    /\ TagAt(loci, i, s) = "Unk"
    /\ \E b \in (i + 1)..Len(loci) : TagAt(loci, b, s) # "Unk"

\* the locus just before the run of strain s that holds the i-th locus (0 when
\* the run begins at the first locus)
PrevIx(loci, i, s) ==
    CHOOSE a \in 0..(i - 1) :
        /\ a = 0 \/ TagAt(loci, a, s) # "Unk"
        /\ \A m \in (a + 1)..i : TagAt(loci, m, s) = "Unk"

\* the locus just after the closed run of strain s that holds the i-th locus
NextIx(loci, i, s) ==
    CHOOSE b \in (i + 1)..Len(loci) :
        /\ TagAt(loci, b, s) # "Unk"
        /\ \A m \in i..(b - 1) : TagAt(loci, m, s) = "Unk"

\* the dominance coefficient of strain s at the i-th locus, if the locus has any
DominanceOf(loci, i, s) ==
    IF loci[i].dominance = None THEN None ELSE Some(loci[i].dominance[1][s])

\* the dosage and the dominance coefficient estimated for the entry of strain s
\* at the i-th locus from the two loci flanking its run
FromFlanks(dom, loci, i, s) ==
    LET a == PrevIx(loci, i, s)
        b == NextIx(loci, i, s)
        cp == loci[a].marker.centi_morgan
        cl == loci[i].marker.centi_morgan
        cn == loci[b].marker.centi_morgan
    IN  [val |-> NewGenotype(TagAt(loci, a, s), TagAt(loci, b, s), cp, cl, cn),
         dominance |->
            IF dom /\ loci[i].dominance # None
            THEN Some(NewDominance(TagAt(loci, a, s), TagAt(loci, b, s), cp, cl, cn))
            ELSE DominanceOf(loci, i, s)]

\* C19: run detection and estimation leave the number and order of the loci,
\* every marker and every genotype tag as they were, and the dosage and the
\* dominance coefficient of every entry outside a closed run too; when no closed
\* run begins at the first locus they complete, and every entry of a closed run
\* then carries the estimate made from the locus just before its run and the
\* locus just after it (an entry is never written with anything else).
C19_OnlyRunDosagesFromFlanks ==
    [][(runs' # runs \/ panicked' # panicked) =>
         \A c \in DOMAIN chromosomes :
            LET before == chromosomes[c]
                after == chromosomes'[c]
                written(i, s) ==
                    /\ after[i].genotype[s].val = FromFlanks(dominance, before, i, s).val
                    /\ DominanceOf(after, i, s) = FromFlanks(dominance, before, i, s).dominance
                kept(i, s) ==
                    /\ after[i].genotype[s].val = before[i].genotype[s].val
                    /\ DominanceOf(after, i, s) = DominanceOf(before, i, s)
                fatal == \E s \in 1..strains :
                            InClosedRun(before, 1, s)
            IN  /\ DOMAIN chromosomes' = DOMAIN chromosomes
                /\ Len(after) = Len(before)
                /\ ~fatal => panicked' = ""
                /\ \A i \in 1..Len(before) :
                      /\ after[i].marker = before[i].marker
                      /\ DOMAIN after[i].genotype = 1..strains
                      /\ (after[i].dominance = None) = (before[i].dominance = None)
                      /\ \A s \in 1..strains :
                            /\ TagAt(after, i, s) = TagAt(before, i, s)
                            /\ ~InClosedRun(before, i, s) => kept(i, s)
                            /\ (InClosedRun(before, i, s) /\ PrevIx(before, i, s) = 0)
                                  => kept(i, s)
                            /\ (InClosedRun(before, i, s) /\ PrevIx(before, i, s) >= 1)
                                  => /\ written(i, s) \/ kept(i, s)
                                     /\ panicked' = "" => written(i, s)
      ]_vars

\* the six loci of the tests after run detection and estimation: the second and
\* the third locus of the first strain lie in one run, and both were estimated
\* from the first and the fifth locus
C19_Witness ==
    /\ runs >= 1
    /\ panicked = ""
    /\ DOMAIN chromosomes = {"1"}
    /\ Len(chromosomes["1"]) = 6
    /\ \A i \in {2, 3} :
          /\ chromosomes["1"][i].genotype[1].geno = "Unk"
          /\ chromosomes["1"][i].genotype[1].val.k = "est"
          /\ chromosomes["1"][i].genotype[1].val.cp = 100
          /\ chromosomes["1"][i].genotype[1].val.cn = 603

\* Maternal and Paternal exchanged; Heterozygous stays
Exchange(geno) ==
    IF geno = "Mat" THEN "Pat" ELSE IF geno = "Pat" THEN "Mat" ELSE geno

\* C21: the dominance table is the same under the exchange of Maternal and
\* Paternal in both flanking genotypes: on an intercross dataset every
\* dominance coefficient written by the estimation for an entry whose run is
\* flanked by (p, n) comes from a cell that is the same expression as the cell
\* of (Exchange(p), Exchange(n)), and so is the coefficient that cell gives at
\* the same positions.
C21_DominanceTableExchangeSymmetric ==
    (runs >= 1 /\ panicked = "" /\ dominance) =>
        \A c \in DOMAIN chromosomes :
            \A i \in 1..Len(chromosomes[c]), s \in 1..strains :
                LET loci == chromosomes[c]
                IN  (InClosedRun(loci, i, s) /\ PrevIx(loci, i, s) >= 1) =>
                        LET a == PrevIx(loci, i, s)
                            b == NextIx(loci, i, s)
                            p == TagAt(loci, a, s)
                            n == TagAt(loci, b, s)
                        IN  /\ DominanceCell(p, n) = DominanceCell(Exchange(p), Exchange(n))
                            /\ DominanceOf(loci, i, s) =
                                  Some(NewDominance(Exchange(p), Exchange(n),
                                                    loci[a].marker.centi_morgan,
                                                    loci[i].marker.centi_morgan,
                                                    loci[b].marker.centi_morgan))

====
